---- MODULE Spec2Model ----
(***************************************************************************)
(* Model of the Discord OAuth exchange-and-reconciliation pipeline of the  *)
(* backend (src/backend/src/main.rs), of the storage queries it uses       *)
(* (src/backend/src/database/queries.rs) and of the token-management       *)
(* handlers (src/backend/src/handlers/discord_tokens.rs).                  *)
(*                                                                         *)
(* The two tables are sets of rows.  Every storage query is one SQL        *)
(* statement and is modelled as one atomic step; a login attempt is a      *)
(* process whose program counter sits at the await it is suspended on.     *)
(* The created_at / updated_at columns are not modelled: no code path of   *)
(* the pipeline reads them.                                                *)
(***************************************************************************)
EXTENDS Integers, Sequences, FiniteSets, TLC

(* ------------------------------------------------------------------ *)
(* Option<T>: None is the empty tuple, Some(x) the one-element tuple.  *)
(* ------------------------------------------------------------------ *)
None == <<>>
Some(x) == <<x>>
IsSome(o) == Len(o) = 1
IsNone(o) == Len(o) = 0
Unwrap(o) == o[1]
UnwrapOr(o, d) == IF Len(o) = 0 THEN d ELSE o[1]
\* SQL COALESCE($n, column): the parameter when it is not NULL, else the column.
Coalesce(param, column) == IF Len(param) = 0 THEN column ELSE param

(* ------------------------------------------------------------------ *)
(* Bounds of the model.                                                *)
(* ------------------------------------------------------------------ *)
\* The clock runs from 0 to MaxTime.
MaxTime == 2
\* At most this many user rows are ever inserted (ids 1..MaxUserRows).
MaxUserRows == 2
\* At most this many token rows are ever inserted (ids 1..MaxTokenRows).
MaxTokenRows == 2
MaxPathLen == 3

(* ------------------------------------------------------------------ *)
(* Input domains.                                                      *)
(* ------------------------------------------------------------------ *)
Attempts == {"a1", "a2"}
DiscordIds == {"d1", "d2"}
Codes == {"abc123"}
ProviderErrors == {"access_denied"}
UserIds == 1..MaxUserRows

\* Bodies the token endpoint may answer with on a 2xx status (the JSON
\* fields the code reads; a field that is absent, null or of the wrong
\* JSON type is None, as `.get(..).and_then(|v| v.as_str())` makes it).
TokenBodies ==
    { [access_token |-> Some("tok1"), refresh_token |-> None, token_type |-> None,
       scope |-> None, expires_in |-> Some(1)],
      [access_token |-> Some("tok2"), refresh_token |-> Some("ref2"),
       token_type |-> Some("MAC"), scope |-> Some("identify"), expires_in |-> None],
      [access_token |-> None, refresh_token |-> Some("ref3"), token_type |-> None,
       scope |-> None, expires_in |-> Some(1)] }

\* Non-2xx answers of the token endpoint: status and body.
ErrorStatuses == {400, 500}
ErrorBodies == {"invalid_grant"}

\* Bodies the user-info endpoint may answer with on a 2xx status.
UserInfos ==
    { [id |-> Some("d1"), username |-> Some("alice"), global_name |-> None,
       avatar |-> None],
      [id |-> Some("d1"), username |-> Some("alice2"), global_name |-> None,
       avatar |-> Some("h1")],
      [id |-> Some("d2"), username |-> Some("bob"), global_name |-> Some("Bobby"),
       avatar |-> None],
      [id |-> Some("d2"), username |-> Some("bob"), global_name |-> Some(""),
       avatar |-> None],
      [id |-> None, username |-> Some("ghost"), global_name |-> None,
       avatar |-> None] }

\* Bodies of POST /api/users (CreateUser).
CreateUserInputs ==
    { [discord_id |-> d, display_name |-> "manual", avatar_url |-> None,
       bio |-> Some("bio0")] : d \in DiscordIds }

\* Bodies of PUT /api/users/:id (UpdateUser).
UpdateUserInputs ==
    { [display_name |-> None, avatar_url |-> None, bio |-> Some("bio1")] }

\* Bodies of POST /api/discord-tokens (CreateTokenRequest), user_id aside.
CreateTokenRequests ==
    { [access_token |-> "tok1", refresh_token |-> None, token_type |-> None,
       scope |-> None, expires_in |-> None] }

\* Bodies of PUT /api/discord-tokens/user/:user_id (UpdateDiscordToken).
UpdateTokenInputs ==
    { [access_token |-> None, refresh_token |-> Some("ref4"), token_type |-> None,
       scope |-> None, expires_at |-> Some(MaxTime)] }

\* Paths given to the URL builders, as sequences of characters.
PathChars == {"/", "a", "b"}
Paths == UNION {[1..n -> PathChars] : n \in 0..MaxPathLen}

VARIABLES
    users,        \* table users: set of rows
    tokens,       \* table discord_tokens: set of rows
    nextUserId,   \* the id the next inserted user row gets
    nextTokenId,  \* the id the next inserted token row gets
    now,          \* the clock (chrono::Utc::now() and SQL NOW())
    pc,           \* per attempt: the await it is suspended on
    entry,        \* per attempt: which inbound interface received it
    local,        \* per attempt: the local variables of the pipeline
    ops,          \* per attempt: the outbound calls and queries issued, in order,
                  \* each <<name, "sent" | "ok" | "err">>
    result,       \* per attempt: Result<Uuid, String> of the pipeline
    response,     \* per attempt: what the inbound handler answered
    url           \* the path given to a URL builder of Config, the builder
                  \* applied to it and the URL it returned

vars == <<users, tokens, nextUserId, nextTokenId, now, pc, entry, local, ops,
          result, response, url>>

(* ------------------------------------------------------------------ *)
(* Schema constraints.  The migrations are not part of the sources;    *)
(* the constraints are the ones the queries and handlers rely on.      *)
(* ------------------------------------------------------------------ *)
\* UNIQUE (discord_id) on users: an INSERT of discord_id d is admitted.
users_discord_id_key(us, d) == \A u \in us : u.discord_id # d

\* UNIQUE (user_id) on discord_tokens, the arbiter of ON CONFLICT (user_id).
discord_tokens_user_id_key(ts, uid) == \A t \in ts : t.user_id # uid

\* FOREIGN KEY discord_tokens.user_id REFERENCES users (id).
discord_tokens_user_id_fkey(us, uid) == \E u \in us : u.id = uid

(* ------------------------------------------------------------------ *)
(* Storage queries (queries.rs).  Each returns the Result of the query *)
(* together with the table after it.                                   *)
(* ------------------------------------------------------------------ *)
\* sqlx::Error that is no constraint violation (connection lost, pool timeout).
DbError == "db_error"

\* create_user as a plain INSERT that no constraint arbitrates.
create_user_unchecked(us, id, cu) ==
    LET row == [id |-> id, discord_id |-> cu.discord_id,
                display_name |-> cu.display_name, avatar_url |-> cu.avatar_url,
                bio |-> cu.bio]
    IN [ok |-> TRUE, err |-> "", row |-> Some(row), users |-> us \cup {row}]

\* create_user as INSERT .. ON CONFLICT DO NOTHING that still reports the
\* row it meant to insert.
create_user_ignore_conflict(us, id, cu) ==
    LET row == [id |-> id, discord_id |-> cu.discord_id,
                display_name |-> cu.display_name, avatar_url |-> cu.avatar_url,
                bio |-> cu.bio]
    IN [ok |-> TRUE, err |-> "", row |-> Some(row),
        users |-> IF users_discord_id_key(us, cu.discord_id)
                  THEN us \cup {row} ELSE us]

create_user(us, id, cu) ==
    LET row == [id |-> id, discord_id |-> cu.discord_id,
                display_name |-> cu.display_name, avatar_url |-> cu.avatar_url,
                bio |-> cu.bio]
    IN IF users_discord_id_key(us, cu.discord_id)
       THEN [ok |-> TRUE, err |-> "", row |-> Some(row), users |-> us \cup {row}]
       ELSE [ok |-> FALSE, err |-> "duplicate key", row |-> None, users |-> us]

get_user_by_id(us, id) ==
    LET m == {u \in us : u.id = id}
    IN IF m = {} THEN None ELSE Some(CHOOSE u \in m : TRUE)

\* fetch_optional: the row when one matches (discord_id is unique).
get_user_by_discord_id(us, d) ==
    LET m == {u \in us : u.discord_id = d}
    IN IF m = {} THEN None ELSE Some(CHOOSE u \in m : TRUE)

\* update_user with bio = $4 in place of bio = COALESCE($4, bio).
update_user_overwrite_bio(us, id, uu) ==
    LET upd(u) == [u EXCEPT !.display_name = UnwrapOr(uu.display_name, @),
                            !.avatar_url = Coalesce(uu.avatar_url, @),
                            !.bio = uu.bio]
        m == {u \in us : u.id = id}
    IN [row |-> IF m = {} THEN None ELSE Some(upd(CHOOSE u \in m : TRUE)),
        users |-> {IF u.id = id THEN upd(u) ELSE u : u \in us}]

\* update_user without its WHERE id = $1: every row is updated.
update_user_all_rows(us, id, uu) ==
    LET upd(u) == [u EXCEPT !.display_name = UnwrapOr(uu.display_name, @),
                            !.avatar_url = Coalesce(uu.avatar_url, @),
                            !.bio = Coalesce(uu.bio, @)]
        m == {u \in us : u.id = id}
    IN [row |-> IF m = {} THEN None ELSE Some(upd(CHOOSE u \in m : TRUE)),
        users |-> {upd(u) : u \in us}]

\* update_user with the display name bound to the discord_id column as well.
update_user_rekeys(us, id, uu) ==
    LET upd(u) == [u EXCEPT !.discord_id = UnwrapOr(uu.display_name, @),
                            !.display_name = UnwrapOr(uu.display_name, @),
                            !.avatar_url = Coalesce(uu.avatar_url, @),
                            !.bio = Coalesce(uu.bio, @)]
        m == {u \in us : u.id = id}
    IN [row |-> IF m = {} THEN None ELSE Some(upd(CHOOSE u \in m : TRUE)),
        users |-> (us \ m) \cup {upd(u) : u \in m}]

update_user(us, id, uu) ==
    LET upd(u) == [u EXCEPT !.display_name = UnwrapOr(uu.display_name, @),
                            !.avatar_url = Coalesce(uu.avatar_url, @),
                            !.bio = Coalesce(uu.bio, @)]
        m == {u \in us : u.id = id}
    IN [row |-> IF m = {} THEN None ELSE Some(upd(CHOOSE u \in m : TRUE)),
        users |-> {IF u.id = id THEN upd(u) ELSE u : u \in us}]

delete_user(us, id) ==
    [deleted |-> \E u \in us : u.id = id, users |-> {u \in us : u.id # id}]

TokenRow(id, ct) ==
    [id |-> id, user_id |-> ct.user_id, access_token |-> ct.access_token,
     refresh_token |-> ct.refresh_token, token_type |-> ct.token_type,
     scope |-> ct.scope, expires_at |-> ct.expires_at]

create_discord_token(ts, us, id, ct) ==
    IF ~discord_tokens_user_id_fkey(us, ct.user_id)
    THEN [ok |-> FALSE, err |-> "foreign key constraint", row |-> None, tokens |-> ts]
    ELSE IF ~discord_tokens_user_id_key(ts, ct.user_id)
    THEN [ok |-> FALSE, err |-> "duplicate key", row |-> None, tokens |-> ts]
    ELSE [ok |-> TRUE, err |-> "", row |-> Some(TokenRow(id, ct)),
          tokens |-> ts \cup {TokenRow(id, ct)}]

get_discord_token_by_user_id(ts, uid) ==
    LET m == {t \in ts : t.user_id = uid}
    IN IF m = {} THEN None ELSE Some(CHOOSE t \in m : TRUE)

\* fetch_optional on a column that need not be unique: any matching row may
\* be the one returned.  The set of the possible results.
get_discord_token_by_access_token(ts, at) ==
    LET m == {t \in ts : t.access_token = at}
    IN IF m = {} THEN {None} ELSE {Some(t) : t \in m}

update_discord_token(ts, uid, ut) ==
    LET upd(t) == [t EXCEPT !.access_token = UnwrapOr(ut.access_token, @),
                            !.refresh_token = Coalesce(ut.refresh_token, @),
                            !.token_type = UnwrapOr(ut.token_type, @),
                            !.scope = Coalesce(ut.scope, @),
                            !.expires_at = Coalesce(ut.expires_at, @)]
        m == {t \in ts : t.user_id = uid}
    IN [row |-> IF m = {} THEN None ELSE Some(upd(CHOOSE t \in m : TRUE)),
        tokens |-> {IF t.user_id = uid THEN upd(t) ELSE t : t \in ts}]

delete_discord_token_by_user_id(ts, uid) ==
    [deleted |-> \E t \in ts : t.user_id = uid,
     tokens |-> {t \in ts : t.user_id # uid}]

\* cleanup_expired_tokens with expires_at <= NOW().
cleanup_expired_tokens_lte(ts, t0) ==
    LET gone == {t \in ts : IsSome(t.expires_at) /\ Unwrap(t.expires_at) <= t0}
    IN [count |-> Cardinality(gone), tokens |-> ts \ gone]

\* cleanup_expired_tokens without the comparison with NOW().
cleanup_expired_tokens_any_expiry(ts, t0) ==
    LET gone == {t \in ts : IsSome(t.expires_at)}
    IN [count |-> Cardinality(gone), tokens |-> ts \ gone]

cleanup_expired_tokens(ts, t0) ==
    LET gone == {t \in ts : IsSome(t.expires_at) /\ Unwrap(t.expires_at) < t0}
    IN [count |-> Cardinality(gone), tokens |-> ts \ gone]

\* upsert_discord_token as a plain INSERT, with no ON CONFLICT clause and no
\* constraint to reject the second row.
upsert_discord_token_plain_insert(ts, us, id, ct) ==
    IF ~discord_tokens_user_id_fkey(us, ct.user_id)
    THEN [ok |-> FALSE, err |-> "foreign key constraint", row |-> None, tokens |-> ts]
    ELSE [ok |-> TRUE, err |-> "", row |-> Some(TokenRow(id, ct)),
          tokens |-> ts \cup {TokenRow(id, ct)}]

\* upsert_discord_token whose DO UPDATE keeps the stored refresh_token, scope
\* and expires_at when the new one is NULL (COALESCE, as update_discord_token).
upsert_discord_token_coalesce(ts, us, id, ct) ==
    IF ~discord_tokens_user_id_fkey(us, ct.user_id)
    THEN [ok |-> FALSE, err |-> "foreign key constraint", row |-> None, tokens |-> ts]
    ELSE IF discord_tokens_user_id_key(ts, ct.user_id)
    THEN [ok |-> TRUE, err |-> "", row |-> Some(TokenRow(id, ct)),
          tokens |-> ts \cup {TokenRow(id, ct)}]
    ELSE LET old == CHOOSE t \in ts : t.user_id = ct.user_id
             new == [TokenRow(old.id, ct) EXCEPT
                        !.refresh_token = Coalesce(ct.refresh_token, old.refresh_token),
                        !.scope = Coalesce(ct.scope, old.scope),
                        !.expires_at = Coalesce(ct.expires_at, old.expires_at)]
         IN [ok |-> TRUE, err |-> "", row |-> Some(new),
             tokens |-> (ts \ {old}) \cup {new}]

\* upsert_discord_token that inserts or overwrites whether or not the user
\* exists (no foreign key on user_id).
upsert_discord_token_no_fkey(ts, us, id, ct) ==
    IF discord_tokens_user_id_key(ts, ct.user_id)
    THEN [ok |-> TRUE, err |-> "", row |-> Some(TokenRow(id, ct)),
          tokens |-> ts \cup {TokenRow(id, ct)}]
    ELSE LET old == CHOOSE t \in ts : t.user_id = ct.user_id
         IN [ok |-> TRUE, err |-> "", row |-> Some(TokenRow(old.id, ct)),
             tokens |-> (ts \ {old}) \cup {TokenRow(old.id, ct)}]

\* upsert_discord_token whose DO UPDATE SET leaves out token_type and scope.
upsert_discord_token_partial_update(ts, us, id, ct) ==
    IF ~discord_tokens_user_id_fkey(us, ct.user_id)
    THEN [ok |-> FALSE, err |-> "foreign key constraint", row |-> None, tokens |-> ts]
    ELSE IF discord_tokens_user_id_key(ts, ct.user_id)
    THEN [ok |-> TRUE, err |-> "", row |-> Some(TokenRow(id, ct)),
          tokens |-> ts \cup {TokenRow(id, ct)}]
    ELSE LET old == CHOOSE t \in ts : t.user_id = ct.user_id
             new == [TokenRow(old.id, ct) EXCEPT !.token_type = old.token_type,
                                                 !.scope = old.scope]
         IN [ok |-> TRUE, err |-> "", row |-> Some(new),
             tokens |-> (ts \ {old}) \cup {new}]

upsert_discord_token(ts, us, id, ct) ==
    IF ~discord_tokens_user_id_fkey(us, ct.user_id)
    THEN [ok |-> FALSE, err |-> "foreign key constraint", row |-> None, tokens |-> ts]
    ELSE IF discord_tokens_user_id_key(ts, ct.user_id)
    THEN [ok |-> TRUE, err |-> "", row |-> Some(TokenRow(id, ct)),
          tokens |-> ts \cup {TokenRow(id, ct)}]
    ELSE LET old == CHOOSE t \in ts : t.user_id = ct.user_id
             new == TokenRow(old.id, ct)
         IN [ok |-> TRUE, err |-> "", row |-> Some(new),
             tokens |-> {IF t.user_id = ct.user_id THEN TokenRow(t.id, ct) ELSE t
                         : t \in ts}]

\* validate_access_token with the comparison expires_at < now.
validate_access_token_lt(ts, at, t0) ==
    LET check(tok) == IF /\ IsSome(tok)
                         /\ IsSome(Unwrap(tok).expires_at)
                         /\ Unwrap(Unwrap(tok).expires_at) < t0
                      THEN None ELSE tok
    IN {check(tok) : tok \in get_discord_token_by_access_token(ts, at)}

\* handlers/discord_tokens.rs validate_access_token at clock t0: the row
\* fetched by access token, or None when its expires_at is set and
\* expires_at <= now.  The set of the possible results.
validate_access_token(ts, at, t0) ==
    LET check(tok) == IF /\ IsSome(tok)
                         /\ IsSome(Unwrap(tok).expires_at)
                         /\ Unwrap(Unwrap(tok).expires_at) <= t0
                      THEN None ELSE tok
    IN {check(tok) : tok \in get_discord_token_by_access_token(ts, at)}

(* ------------------------------------------------------------------ *)
(* Responses of the token-management endpoints                         *)
(* (handlers/discord_tokens.rs), as functions of the store, the        *)
(* request and whether the query reached the database (dbok).          *)
(* ------------------------------------------------------------------ *)
ApiSuccess(status, data) ==
    [status |-> status, success |-> TRUE, data |-> Some(data), error |-> None]
ApiError(status, message) ==
    [status |-> status, success |-> FALSE, data |-> None, error |-> Some(message)]

\* From<DbDiscordToken> that copies the two token columns as well.
DiscordTokenResponse_from_full(t) ==
    [id |-> t.id, user_id |-> t.user_id, token_type |-> t.token_type,
     scope |-> t.scope, expires_at |-> t.expires_at,
     access_token |-> t.access_token, refresh_token |-> t.refresh_token]

\* impl From<DbDiscordToken> for DiscordTokenResponse.
DiscordTokenResponse_from(t) ==
    [id |-> t.id, user_id |-> t.user_id, token_type |-> t.token_type,
     scope |-> t.scope, expires_at |-> t.expires_at]

\* POST /api/discord-tokens; ct is the CreateDiscordToken built from the body.
upsert_response(ts, us, id, ct, dbok) ==
    LET r == upsert_discord_token(ts, us, id, ct)
    IN IF dbok /\ r.ok
       THEN ApiSuccess(200, DiscordTokenResponse_from(Unwrap(r.row)))
       ELSE IF dbok /\ r.err = "foreign key constraint"
       THEN ApiError(400, <<"User not found">>)
       ELSE ApiError(400, <<"Failed to save Discord token", DbError>>)

\* GET /api/discord-tokens/user/:user_id
get_response(ts, uid, dbok) ==
    LET r == get_discord_token_by_user_id(ts, uid)
    IN IF ~dbok THEN ApiError(500, <<"Database error", DbError>>)
       ELSE IF IsSome(r) THEN ApiSuccess(200, DiscordTokenResponse_from(Unwrap(r)))
       ELSE ApiError(404, <<"No Discord token found for user">>)

\* PUT /api/discord-tokens/user/:user_id
update_response(ts, uid, ut, dbok) ==
    LET r == update_discord_token(ts, uid, ut)
    IN IF ~dbok THEN ApiError(500, <<"Failed to update Discord token", DbError>>)
       ELSE IF IsSome(r.row)
       THEN ApiSuccess(200, DiscordTokenResponse_from(Unwrap(r.row)))
       ELSE ApiError(404, <<"Discord token not found for user">>)

\* DELETE /api/discord-tokens/user/:user_id
delete_response(ts, uid, dbok) ==
    LET r == delete_discord_token_by_user_id(ts, uid)
    IN IF ~dbok THEN ApiError(500, <<"Failed to delete Discord token", DbError>>)
       ELSE IF r.deleted THEN ApiSuccess(204, <<>>)
       ELSE ApiError(404, <<"No Discord token found for user">>)

\* verify_discord_token with the comparison expires >= now.
verify_response_gte(ts, uid, t0, dbok) ==
    LET r == get_discord_token_by_user_id(ts, uid)
    IN IF ~dbok THEN ApiError(500, <<"Database error", DbError>>)
       ELSE IF IsSome(r)
       THEN LET is_valid == IF IsSome(Unwrap(r).expires_at)
                            THEN Unwrap(Unwrap(r).expires_at) >= t0 ELSE TRUE
            IN ApiSuccess(200, [user_id |-> uid, has_token |-> TRUE,
                                is_expired |-> Some(~is_valid),
                                expires_at |-> Unwrap(r).expires_at])
       ELSE ApiSuccess(200, [user_id |-> uid, has_token |-> FALSE,
                             is_expired |-> None, expires_at |-> None])

\* GET /api/discord-tokens/user/:user_id/verify
verify_response(ts, uid, t0, dbok) ==
    LET r == get_discord_token_by_user_id(ts, uid)
    IN IF ~dbok THEN ApiError(500, <<"Database error", DbError>>)
       ELSE IF IsSome(r)
       THEN LET is_valid == IF IsSome(Unwrap(r).expires_at)
                            THEN Unwrap(Unwrap(r).expires_at) > t0 ELSE TRUE
            IN ApiSuccess(200, [user_id |-> uid, has_token |-> TRUE,
                                is_expired |-> Some(~is_valid),
                                expires_at |-> Unwrap(r).expires_at])
       ELSE ApiSuccess(200, [user_id |-> uid, has_token |-> FALSE,
                             is_expired |-> None, expires_at |-> None])

\* POST /api/discord-tokens/cleanup
cleanup_response(ts, t0, dbok) ==
    IF ~dbok THEN ApiError(500, <<"Failed to cleanup expired tokens", DbError>>)
    ELSE LET n == cleanup_expired_tokens(ts, t0).count
         IN ApiSuccess(200, [deleted_count |-> n,
                             message |-> <<"Cleaned up ", n, " expired tokens">>])

(* ------------------------------------------------------------------ *)
(* Pure parts of the pipeline (main.rs).                               *)
(* ------------------------------------------------------------------ *)
Ok(v) == [ok |-> TRUE, val |-> v]
Err(e) == [ok |-> FALSE, val |-> e]

\* Config::oauth_success_redirect / oauth_error_redirect: format! of the
\* frontend URL, a fixed infix and the argument.
oauth_success_redirect(user_id) == <<"FRONTEND_URL", "/?auth=success&user_id=", user_id>>
oauth_error_redirect(error) == <<"FRONTEND_URL", "/?error=", error>>

\* The fields exchange_code_for_token_and_save_user reads from the token
\* response; Err when access_token is missing.
parse_token_response(body) ==
    IF IsNone(body.access_token)
    THEN Err(<<"No access token in response">>)
    ELSE Ok([access_token |-> Unwrap(body.access_token),
             refresh_token |-> body.refresh_token,
             token_type |-> UnwrapOr(body.token_type, "Bearer"),
             scope |-> body.scope,
             expires_in |-> body.expires_in])

\* expires_in.map(|seconds| Utc::now() + Duration::seconds(seconds))
expires_at_of(expires_in, t0) ==
    IF IsSome(expires_in) THEN Some(t0 + Unwrap(expires_in)) ELSE None

\* CreateDiscordToken built from the grant for user uid at time t0.
create_token_of(uid, grant, t0) ==
    [user_id |-> uid, access_token |-> grant.access_token,
     refresh_token |-> grant.refresh_token, token_type |-> grant.token_type,
     scope |-> grant.scope, expires_at |-> expires_at_of(grant.expires_in, t0)]

display_name_of(info) ==
    UnwrapOr(info.global_name, UnwrapOr(info.username, "Unknown User"))

avatar_url_of(info) ==
    IF IsSome(info.avatar)
    THEN Some(<<"https://cdn.discordapp.com/avatars/", Unwrap(info.id), "/",
                Unwrap(info.avatar), ".png">>)
    ELSE None

\* The UpdateUser of a login that sends an empty bio along.
login_update_of_empty_bio(info) ==
    [display_name |-> Some(display_name_of(info)), avatar_url |-> avatar_url_of(info),
     bio |-> Some("")]

\* The UpdateUser a login sends for an existing user.
login_update_of(info) ==
    [display_name |-> Some(display_name_of(info)), avatar_url |-> avatar_url_of(info),
     bio |-> None]

\* The CreateUser a login sends for a new user.
login_create_of(info) ==
    [discord_id |-> Unwrap(info.id), display_name |-> display_name_of(info),
     avatar_url |-> avatar_url_of(info), bio |-> None]

\* The dispatch with the two tests in the other order: a code is exchanged
\* even when the provider reported an error.
callback_dispatch_code_first(code, error) ==
    IF IsSome(code) THEN "exchange"
    ELSE IF IsSome(error) THEN "denied"
    ELSE "missing_code"

\* The dispatch without the test for a code: the pipeline is started even
\* when the callback carries none.
callback_dispatch_no_code_test(code, error) ==
    IF IsSome(error) THEN "denied"
    ELSE "exchange"

\* handle_discord_callback's dispatch on the query parameters.
callback_dispatch(code, error) ==
    IF IsSome(error) THEN "denied"
    ELSE IF IsSome(code) THEN "exchange"
    ELSE "missing_code"

\* respond with the pipeline's error message as the reason of the callback's
\* failure redirect.
respond_with_details(ent, out) ==
    IF ent = "callback"
    THEN IF out.kind = "denied"
         THEN [kind |-> "redirect", to |-> oauth_error_redirect("oauth_failed")]
         ELSE IF out.kind = "missing_code"
         THEN [kind |-> "redirect", to |-> oauth_error_redirect("missing_code")]
         ELSE IF out.res.ok
         THEN [kind |-> "redirect", to |-> oauth_success_redirect(out.res.val)]
         ELSE [kind |-> "redirect", to |-> oauth_error_redirect(out.res.val[1])]
    ELSE IF ent = "exchange"
    THEN IF out.res.ok
         THEN [kind |-> "json", to |-> <<TRUE, out.res.val>>]
         ELSE [kind |-> "json", to |-> <<FALSE, "token_exchange_failed", out.res.val>>]
    \* the front end's DiscordCallback view, which calls the exchange endpoint
    ELSE IF out.kind = "denied"
         THEN [kind |-> "nav", to |-> <<"/?error=oauth_failed&details=", out.error>>]
         ELSE IF out.kind = "missing_code"
         THEN [kind |-> "nav", to |-> <<"/?error=missing_code">>]
         ELSE IF out.res.ok
         THEN [kind |-> "nav", to |-> <<"/?auth=success&user_id=", out.res.val>>]
         ELSE [kind |-> "nav", to |-> <<"/?error=token_exchange_failed">>]

\* What the inbound handler answers, given how the attempt ended:
\* out.kind is "denied", "missing_code" or "pipeline" (then out.res is the
\* pipeline's Result).
respond(ent, out) ==
    IF ent = "callback"
    THEN IF out.kind = "denied"
         THEN [kind |-> "redirect", to |-> oauth_error_redirect("oauth_failed")]
         ELSE IF out.kind = "missing_code"
         THEN [kind |-> "redirect", to |-> oauth_error_redirect("missing_code")]
         ELSE IF out.res.ok
         THEN [kind |-> "redirect", to |-> oauth_success_redirect(out.res.val)]
         ELSE [kind |-> "redirect", to |-> oauth_error_redirect("token_exchange_failed")]
    ELSE IF ent = "exchange"
    THEN IF out.res.ok
         THEN [kind |-> "json", to |-> <<TRUE, out.res.val>>]
         ELSE [kind |-> "json", to |-> <<FALSE, "token_exchange_failed", out.res.val>>]
    \* the front end's DiscordCallback view, which calls the exchange endpoint
    ELSE IF out.kind = "denied"
         THEN [kind |-> "nav", to |-> <<"/?error=oauth_failed&details=", out.error>>]
         ELSE IF out.kind = "missing_code"
         THEN [kind |-> "nav", to |-> <<"/?error=missing_code">>]
         ELSE IF out.res.ok
         THEN [kind |-> "nav", to |-> <<"/?auth=success&user_id=", out.res.val>>]
         ELSE [kind |-> "nav", to |-> <<"/?error=token_exchange_failed">>]

(* ------------------------------------------------------------------ *)
(* The URL builders of Config (config.rs).  A URL is the sequence of    *)
(* its parts: the configured base as one part, then characters.         *)
(* ------------------------------------------------------------------ *)
\* str::strip_prefix: one leading c is removed.
trim_start_matches_once(s, c) ==
    IF s # <<>> /\ Head(s) = c THEN Tail(s) ELSE s

\* str::trim_start_matches(c)
RECURSIVE trim_start_matches(_, _)
trim_start_matches(s, c) ==
    IF s # <<>> /\ Head(s) = c THEN trim_start_matches(Tail(s), c) ELSE s

frontend_url == <<"FRONTEND_URL">>
backend_api_url == <<"BACKEND_URL", "/api">>
discord_api_base_url == <<"DISCORD_API_BASE_URL">>

\* format!("{}/{}", base, path.trim_start_matches('/'))
frontend_route(path) == frontend_url \o <<"/">> \o trim_start_matches(path, "/")
backend_api_endpoint(path) == backend_api_url \o <<"/">> \o trim_start_matches(path, "/")
discord_api_endpoint(path) ==
    discord_api_base_url \o <<"/">> \o trim_start_matches(path, "/")

\* No builder has been applied to path yet.
NoUrl(path) == [path |-> path, of |-> "none", val |-> <<>>]

(* ------------------------------------------------------------------ *)
(* Initial state: empty tables, every attempt not yet received.        *)
(* ------------------------------------------------------------------ *)
\* query: the inbound query parameters; token_response: the token endpoint's
\* non-2xx answer; held: the pool connections the attempt holds; the rest are
\* the pipeline's local variables.
NoLocal == [query |-> None, token_response |-> None, grant |-> None,
            received_at |-> None, held |-> 0,
            user_info |-> None, existing_id |-> None, user_id |-> None]

\* A query that keeps its connection when the statement fails.
pooled_query_leak_on_error(h, ok) == IF ok THEN h ELSE h + 1

\* `.fetch_one(pool).await` / `.fetch_optional(pool).await` on the pool: the
\* statement runs on a connection taken from the pool for it and given back
\* when the statement's future completes, with rows or with an error.
pooled_query(h, ok) == (h + 1) - 1

\* The locals l after a query of the attempt has returned (ok: without error).
AfterQuery(l, ok) == [l EXCEPT !.held = pooled_query(@, ok)]

\* The pipeline returns: its working variables are dropped.  What the
\* attempt received from outside (query, token_response, user_info), the
\* identifier reconcile returned and, on success, the grant it stored stay
\* on record.
Dropped(l, ok) ==
    [l EXCEPT !.existing_id = None, !.received_at = None,
              !.grant = IF ok THEN @ ELSE None]

\* The call or query named op is issued by attempt a / has returned.
Issued(log, op) == Append(log, <<op, "sent">>)
Returned(log, ok) ==
    [log EXCEPT ![Len(log)] = <<log[Len(log)][1], IF ok THEN "ok" ELSE "err">>]
Done(log, op, ok) == Append(log, <<op, IF ok THEN "ok" ELSE "err">>)

Init ==
    /\ users = {}
    /\ tokens = {}
    /\ nextUserId = 1
    /\ nextTokenId = 1
    /\ now = 0
    /\ pc = [a \in Attempts |-> "idle"]
    /\ entry = [a \in Attempts |-> "none"]
    /\ local = [a \in Attempts |-> NoLocal]
    /\ ops = [a \in Attempts |-> <<>>]
    /\ result = [a \in Attempts |-> None]
    /\ response = [a \in Attempts |-> None]
    /\ url = NoUrl(<<>>)

db == <<users, tokens, nextUserId, nextTokenId>>

\* The attempt ends and the inbound handler answers.
Finish(a, ent, out) ==
    /\ pc' = [pc EXCEPT ![a] = "done"]
    /\ result' = [result EXCEPT ![a] = IF out.kind = "pipeline" THEN Some(out.res) ELSE None]
    /\ response' = [response EXCEPT ![a] = Some(respond(ent, out))]

Pipeline(res) == [kind |-> "pipeline", res |-> res, error |-> ""]

\* The error is dropped instead of returned (`.ok()` for `?`) and the
\* pipeline goes on to persist the token.
Fail_swallowed(a, e) ==
    /\ pc' = [pc EXCEPT ![a] = "upsert"]
    /\ UNCHANGED <<result, response>>

\* The failing attempt starts over at the token request instead of
\* returning.
Fail_retry(a, e) ==
    /\ pc' = [pc EXCEPT ![a] = "token_wait"]
    /\ UNCHANGED <<result, response>>

\* The pipeline returns Err(e) from the await attempt a is suspended on
\* (`.map_err(..)?`, `.ok_or(..)?`, `Err(..)`).
Fail(a, e) == Finish(a, entry[a], Pipeline(Err(e)))

(* ------------------------------------------------------------------ *)
(* Inbound interfaces.                                                 *)
(* ------------------------------------------------------------------ *)
QueryCodes == {None} \cup {Some(c) : c \in Codes}
QueryErrors == {None} \cup {Some(e) : e \in ProviderErrors}

\* exchange_code_for_token_and_save_user up to its first await: the POST
\* to the token endpoint is sent.
StartPipeline(a, ent, q) ==
    /\ entry' = [entry EXCEPT ![a] = ent]
    /\ local' = [local EXCEPT ![a].query = Some(q)]
    /\ ops' = [ops EXCEPT ![a] = Issued(@, "POST")]
    /\ pc' = [pc EXCEPT ![a] = "token_wait"]
    /\ UNCHANGED <<result, response>>

\* The inbound handler answers without running the pipeline.
AnswerDirectly(a, ent, q, kind) ==
    /\ entry' = [entry EXCEPT ![a] = ent]
    /\ local' = [local EXCEPT ![a].query = Some(q)]
    /\ Finish(a, ent, [kind |-> kind, res |-> Err(<<>>), error |-> UnwrapOr(q.error, "")])
    /\ UNCHANGED ops

\* GET /auth/discord/callback?code=..&error=..  (handle_discord_callback)
HandleDiscordCallback(a) ==
    /\ UNCHANGED url
    /\ pc[a] = "idle"
    /\ \E code \in QueryCodes, error \in QueryErrors :
         LET q == [code |-> code, error |-> error]
             d == callback_dispatch(code, error)
         IN IF d = "exchange"
            THEN StartPipeline(a, "callback", q)
            ELSE AnswerDirectly(a, "callback", q, d)
    /\ UNCHANGED <<db, now>>

\* GET /auth/discord/exchange?code=..  (handle_discord_exchange)
HandleDiscordExchange(a) ==
    /\ UNCHANGED url
    /\ pc[a] = "idle"
    /\ \E code \in Codes :
         StartPipeline(a, "exchange", [code |-> Some(code), error |-> None])
    /\ UNCHANGED <<db, now>>

\* The front end's DiscordCallback view: on a code it calls the exchange
\* endpoint (send_code_to_backend).
DiscordCallback(a) ==
    /\ UNCHANGED url
    /\ pc[a] = "idle"
    /\ \E code \in QueryCodes, error \in QueryErrors :
         LET q == [code |-> code, error |-> error]
         IN IF IsSome(error)
            THEN AnswerDirectly(a, "frontend", q, "denied")
            ELSE IF IsSome(code)
            THEN StartPipeline(a, "frontend", q)
            ELSE AnswerDirectly(a, "frontend", q, "missing_code")
    /\ UNCHANGED <<db, now>>

(* ------------------------------------------------------------------ *)
(* exchange_code_for_token_and_save_user, one action per await.        *)
(* ------------------------------------------------------------------ *)
\* The error of the non-2xx branch without the body.
token_request_failed_status_only(status, text) ==
    <<"Token request failed", status, "">>

\* The error of the non-2xx branch: status and the body as read
\* (response.text().await.unwrap_or_default()).
token_request_failed(status, text) ==
    <<"Token request failed", status, UnwrapOr(text, "")>>

\* The token endpoint's answer arrives (or the request fails).
TokenResponse(a) ==
    /\ UNCHANGED url
    /\ pc[a] = "token_wait"
    /\ \/ /\ Fail(a, <<"Request failed">>)
          /\ ops' = [ops EXCEPT ![a] = Returned(@, FALSE)]
          /\ local' = [local EXCEPT ![a] = Dropped(@, FALSE)]
       \/ \E status \in ErrorStatuses, body \in ErrorBodies, readable \in BOOLEAN :
            LET text == IF readable THEN Some(body) ELSE None
            IN /\ Fail(a, token_request_failed(status, text))
               /\ ops' = [ops EXCEPT ![a] = Returned(@, FALSE)]
               /\ local' = [local EXCEPT ![a] =
                              [Dropped(@, FALSE) EXCEPT !.token_response =
                                 Some([status |-> status, body |-> body,
                                       readable |-> readable])]]
       \/ /\ Fail(a, <<"JSON parsing failed">>)
          /\ ops' = [ops EXCEPT ![a] = Returned(@, FALSE)]
          /\ local' = [local EXCEPT ![a] = Dropped(@, FALSE)]
       \/ \E body \in TokenBodies :
            LET g == parse_token_response(body)
            IN IF ~g.ok
               THEN /\ Fail(a, g.val)
                    /\ ops' = [ops EXCEPT ![a] = Returned(@, FALSE)]
                    /\ local' = [local EXCEPT ![a] = Dropped(@, FALSE)]
               ELSE \* get_discord_user_info: the GET is sent
                    /\ local' = [local EXCEPT ![a].grant = Some(g.val),
                                               ![a].received_at = Some(now)]
                    /\ ops' = [ops EXCEPT ![a] = Issued(Returned(@, TRUE), "GET")]
                    /\ pc' = [pc EXCEPT ![a] = "profile_wait"]
                    /\ UNCHANGED <<result, response>>
    /\ UNCHANGED <<db, now, entry>>

\* The user-info endpoint's answer arrives (or the request fails); on
\* success create_or_update_user_from_discord runs up to its lookup.
ProfileResponse(a) ==
    /\ UNCHANGED url
    /\ pc[a] = "profile_wait"
    /\ \/ /\ Fail(a, <<"Failed to get user info", "transport">>)
          /\ ops' = [ops EXCEPT ![a] = Returned(@, FALSE)]
          /\ local' = [local EXCEPT ![a] = Dropped(@, FALSE)]
       \/ /\ \E status \in ErrorStatuses : Fail(a, <<"Failed to get user info", "status", status>>)
          /\ ops' = [ops EXCEPT ![a] = Returned(@, FALSE)]
          /\ local' = [local EXCEPT ![a] = Dropped(@, FALSE)]
       \/ /\ Fail(a, <<"Failed to parse user info">>)
          /\ ops' = [ops EXCEPT ![a] = Returned(@, FALSE)]
          /\ local' = [local EXCEPT ![a] = Dropped(@, FALSE)]
       \/ \E info \in UserInfos :
            /\ ops' = [ops EXCEPT ![a] = Returned(@, TRUE)]
            /\ IF IsNone(info.id)
               THEN /\ Fail(a, <<"No Discord ID in user info">>)
                    /\ local' = [local EXCEPT ![a] =
                                   [Dropped(@, FALSE) EXCEPT !.user_info = Some(info)]]
               ELSE /\ pc' = [pc EXCEPT ![a] = "lookup"]
                    /\ local' = [local EXCEPT ![a].user_info = Some(info)]
                    /\ UNCHANGED <<result, response>>
    /\ UNCHANGED <<db, now, entry>>

\* get_user_by_discord_id(..).await and the `if let Ok(Some(existing_user))`.
lookup_branch(r) ==
    IF r.ok /\ IsSome(r.val) THEN "update" ELSE "create"

LookupUser(a) ==
    /\ UNCHANGED url
    /\ pc[a] = "lookup"
    /\ \E dbok \in BOOLEAN :
         LET info == Unwrap(local[a].user_info)
             r == IF dbok THEN Ok(get_user_by_discord_id(users, Unwrap(info.id)))
                  ELSE Err(DbError)
         IN /\ pc' = [pc EXCEPT ![a] = lookup_branch(r)]
            /\ local' = [local EXCEPT ![a] =
                           AfterQuery([@ EXCEPT !.existing_id =
                                         IF lookup_branch(r) = "update"
                                         THEN Some(Unwrap(r.val).id) ELSE None],
                                      r.ok)]
            /\ ops' = [ops EXCEPT ![a] = Done(@, "LOOKUP", r.ok)]
    /\ UNCHANGED <<db, now, entry, result, response>>

\* update_user(pool, existing_user.id, ..).await of the found branch.
UpdateExistingUser(a) ==
    /\ UNCHANGED url
    /\ pc[a] = "update"
    /\ \E dbok \in BOOLEAN :
         LET id == Unwrap(local[a].existing_id)
             r == update_user(users, id, login_update_of(Unwrap(local[a].user_info)))
         IN IF ~dbok
            THEN /\ Fail(a, <<"Failed to update user", DbError>>)
                 /\ ops' = [ops EXCEPT ![a] = Done(@, "UPDATE", FALSE)]
                 /\ local' = [local EXCEPT ![a] = AfterQuery(Dropped(@, FALSE), FALSE)]
                 /\ UNCHANGED users
            ELSE IF IsNone(r.row)
            THEN /\ Fail(a, <<"User not found after update">>)
                 /\ ops' = [ops EXCEPT ![a] = Done(@, "UPDATE", FALSE)]
                 /\ local' = [local EXCEPT ![a] = AfterQuery(Dropped(@, FALSE), TRUE)]
                 /\ UNCHANGED users
            ELSE /\ users' = r.users
                 /\ ops' = [ops EXCEPT ![a] = Done(@, "UPDATE", TRUE)]
                 /\ local' = [local EXCEPT ![a] =
                                AfterQuery([@ EXCEPT !.user_id = Some(id)], TRUE)]
                 /\ pc' = [pc EXCEPT ![a] = "upsert"]
                 /\ UNCHANGED <<result, response>>
    /\ UNCHANGED <<tokens, nextUserId, nextTokenId, now, entry>>

\* create_user(pool, ..).await of the not-found branch.
CreateNewUser(a) ==
    /\ UNCHANGED url
    /\ pc[a] = "create"
    /\ \E dbok \in BOOLEAN :
         LET r == create_user(users, nextUserId, login_create_of(Unwrap(local[a].user_info)))
         IN IF ~dbok \/ ~r.ok
            THEN /\ Fail(a, <<"Failed to create user", IF dbok THEN r.err ELSE DbError>>)
                 /\ ops' = [ops EXCEPT ![a] = Done(@, "CREATE", FALSE)]
                 /\ local' = [local EXCEPT ![a] = AfterQuery(Dropped(@, FALSE), FALSE)]
                 /\ UNCHANGED <<users, nextUserId>>
            ELSE /\ nextUserId <= MaxUserRows
                 /\ users' = r.users
                 /\ nextUserId' = nextUserId + 1
                 /\ ops' = [ops EXCEPT ![a] = Done(@, "CREATE", TRUE)]
                 /\ local' = [local EXCEPT ![a] =
                                AfterQuery([@ EXCEPT !.user_id = Some(Unwrap(r.row).id)],
                                           TRUE)]
                 /\ pc' = [pc EXCEPT ![a] = "upsert"]
                 /\ UNCHANGED <<result, response>>
    /\ UNCHANGED <<tokens, nextTokenId, now, entry>>

\* upsert_discord_token(pool, create_token).await and the return.
SaveToken(a) ==
    /\ UNCHANGED url
    /\ pc[a] = "upsert"
    /\ \E dbok \in BOOLEAN :
         LET uid == Unwrap(local[a].user_id)
             ct == create_token_of(uid, Unwrap(local[a].grant), now)
             r == upsert_discord_token(tokens, users, nextTokenId, ct)
         IN IF ~dbok \/ ~r.ok
            THEN /\ Fail(a, <<"Failed to save token", IF dbok THEN r.err ELSE DbError>>)
                 /\ ops' = [ops EXCEPT ![a] = Done(@, "UPSERT", FALSE)]
                 /\ local' = [local EXCEPT ![a] = AfterQuery(Dropped(@, FALSE), FALSE)]
                 /\ UNCHANGED <<tokens, nextTokenId>>
            ELSE /\ Unwrap(r.row).id = nextTokenId => nextTokenId <= MaxTokenRows
                 /\ tokens' = r.tokens
                 /\ nextTokenId' = IF Unwrap(r.row).id = nextTokenId
                                   THEN nextTokenId + 1 ELSE nextTokenId
                 /\ ops' = [ops EXCEPT ![a] = Done(@, "UPSERT", TRUE)]
                 /\ local' = [local EXCEPT ![a] = AfterQuery(Dropped(@, TRUE), TRUE)]
                 /\ Finish(a, entry[a], Pipeline(Ok(uid)))
    /\ UNCHANGED <<users, nextUserId, now, entry>>

(* ------------------------------------------------------------------ *)
(* The CRUD and token-management endpoints (handlers/users.rs and      *)
(* handlers/discord_tokens.rs), each one query.  A request whose query *)
(* fails changes nothing and is no step.                               *)
(* ------------------------------------------------------------------ *)
attempt_vars == <<pc, entry, local, ops, result, response>>

\* POST /api/users
ApiCreateUser ==
    /\ UNCHANGED url
    /\ nextUserId <= MaxUserRows
    /\ \E cu \in CreateUserInputs :
         LET r == create_user(users, nextUserId, cu)
         IN /\ r.ok
            /\ users' = r.users
            /\ nextUserId' = nextUserId + 1
    /\ UNCHANGED <<tokens, nextTokenId, now, attempt_vars>>

\* PUT /api/users/:id
ApiUpdateUser ==
    /\ UNCHANGED url
    /\ \E id \in UserIds, uu \in UpdateUserInputs :
         LET r == update_user(users, id, uu)
         IN /\ IsSome(r.row)
            /\ users' = r.users
    /\ UNCHANGED <<tokens, nextUserId, nextTokenId, now, attempt_vars>>

\* DELETE /api/users/:id.  The user's token row goes with it (ON DELETE
\* CASCADE); under a schema that restricts the delete instead, the request
\* fails and is no step.
ApiDeleteUser ==
    /\ UNCHANGED url
    /\ \E id \in UserIds :
         LET r == delete_user(users, id)
         IN /\ r.deleted
            /\ users' = r.users
            /\ tokens' = delete_discord_token_by_user_id(tokens, id).tokens
    /\ UNCHANGED <<nextUserId, nextTokenId, now, attempt_vars>>

\* CreateDiscordToken built by the upsert handler from its request body.
create_token_of_request(uid, req, t0) ==
    [user_id |-> uid, access_token |-> req.access_token,
     refresh_token |-> req.refresh_token,
     token_type |-> UnwrapOr(req.token_type, "Bearer"),
     scope |-> req.scope, expires_at |-> expires_at_of(req.expires_in, t0)]

\* POST /api/discord-tokens with user_id uid and body req.
ApiUpsertTokenFor(uid, req) ==
    /\ UNCHANGED url
    /\ LET r == upsert_discord_token(tokens, users, nextTokenId,
                                     create_token_of_request(uid, req, now))
       IN /\ r.ok
          /\ Unwrap(r.row).id = nextTokenId => nextTokenId <= MaxTokenRows
          /\ tokens' = r.tokens
          /\ nextTokenId' = IF Unwrap(r.row).id = nextTokenId
                            THEN nextTokenId + 1 ELSE nextTokenId
    /\ UNCHANGED <<users, nextUserId, now, attempt_vars>>

ApiUpsertToken ==
    \E uid \in UserIds, req \in CreateTokenRequests : ApiUpsertTokenFor(uid, req)

\* PUT /api/discord-tokens/user/:user_id
ApiUpdateToken ==
    /\ UNCHANGED url
    /\ \E uid \in UserIds, ut \in UpdateTokenInputs :
         LET r == update_discord_token(tokens, uid, ut)
         IN /\ IsSome(r.row)
            /\ tokens' = r.tokens
    /\ UNCHANGED <<users, nextUserId, nextTokenId, now, attempt_vars>>

\* DELETE /api/discord-tokens/user/:user_id
ApiDeleteToken ==
    /\ UNCHANGED url
    /\ \E uid \in UserIds :
         LET r == delete_discord_token_by_user_id(tokens, uid)
         IN /\ r.deleted
            /\ tokens' = r.tokens
    /\ UNCHANGED <<users, nextUserId, nextTokenId, now, attempt_vars>>

\* POST /api/discord-tokens/cleanup
ApiCleanup ==
    /\ UNCHANGED url
    /\ tokens' = cleanup_expired_tokens(tokens, now).tokens
    /\ tokens' # tokens
    /\ UNCHANGED <<users, nextUserId, nextTokenId, now, attempt_vars>>

\* Time passes.
Tick ==
    /\ UNCHANGED url
    /\ now < MaxTime
    /\ now' = now + 1
    /\ UNCHANGED <<db, attempt_vars>>

\* Config::frontend_route / backend_api_endpoint / discord_api_endpoint
\* applied to the path at hand.
FrontendRoute ==
    /\ url' = [url EXCEPT !.of = "frontend_route", !.val = frontend_route(url.path)]
    /\ UNCHANGED <<db, now, attempt_vars>>

BackendApiEndpoint ==
    /\ url' = [url EXCEPT !.of = "backend_api_endpoint",
                          !.val = backend_api_endpoint(url.path)]
    /\ UNCHANGED <<db, now, attempt_vars>>

DiscordApiEndpoint ==
    /\ url' = [url EXCEPT !.of = "discord_api_endpoint",
                          !.val = discord_api_endpoint(url.path)]
    /\ UNCHANGED <<db, now, attempt_vars>>

\* The awaits of the pipeline.
Steps(a) ==
    \/ TokenResponse(a)
    \/ ProfileResponse(a)
    \/ LookupUser(a)
    \/ UpdateExistingUser(a)
    \/ CreateNewUser(a)
    \/ SaveToken(a)

Login(a) ==
    \/ HandleDiscordCallback(a)
    \/ HandleDiscordExchange(a)
    \/ DiscordCallback(a)
    \/ Steps(a)

\* The whole system.
Next ==
    \/ \E a \in Attempts : Login(a)
    \/ ApiCreateUser
    \/ ApiUpdateUser
    \/ ApiDeleteUser
    \/ ApiUpsertToken
    \/ ApiUpdateToken
    \/ ApiDeleteToken
    \/ ApiCleanup
    \/ Tick
    \/ FrontendRoute
    \/ BackendApiEndpoint
    \/ DiscordApiEndpoint

Spec == Init /\ [][Next]_vars

(* ------------------------------------------------------------------ *)
(* The specifications that are checked: each takes the part of Next    *)
(* that the properties checked under it are about, so each of its      *)
(* behaviours is a behaviour of Spec.                                  *)
(* ------------------------------------------------------------------ *)
\* Concurrent logins through the exchange endpoint alone.
NextLogins ==
    \E a \in Attempts : HandleDiscordExchange(a) \/ Steps(a)

SpecLogins == Init /\ [][NextLogins]_vars

\* Concurrent logins through the exchange endpoint, with users created and
\* updated through the user endpoints beside them.
NextUsers ==
    \/ \E a \in Attempts : HandleDiscordExchange(a) \/ Steps(a)
    \/ ApiCreateUser
    \/ ApiUpdateUser

SpecUsers == Init /\ [][NextUsers]_vars

\* A login through the exchange endpoint, the user-creation endpoint, the
\* token endpoints and the clock.
NextTokens ==
    \/ HandleDiscordExchange("a1") \/ Steps("a1")
    \/ ApiCreateUser
    \/ ApiUpsertToken
    \/ ApiUpdateToken
    \/ ApiDeleteToken
    \/ ApiCleanup
    \/ Tick

SpecTokens == Init /\ [][NextTokens]_vars

\* Concurrent logins through the exchange endpoint, token upserts and
\* updates, the purge of expired tokens and the clock.  Token rows disappear
\* through the purge alone.
NextPurge ==
    \/ \E a \in Attempts : HandleDiscordExchange(a) \/ Steps(a)
    \/ ApiUpsertToken
    \/ ApiUpdateToken
    \/ ApiCleanup
    \/ Tick

SpecPurge == Init /\ [][NextPurge]_vars

\* One login attempt through any of the inbound interfaces, with users
\* created and deleted beside it.
NextInbound ==
    \/ Login("a1")
    \/ ApiCreateUser
    \/ ApiDeleteUser

SpecInbound == Init /\ [][NextInbound]_vars

\* The URL builders on every path of the bound.
InitUrls ==
    /\ users = {} /\ tokens = {} /\ nextUserId = 1 /\ nextTokenId = 1 /\ now = 0
    /\ pc = [a \in Attempts |-> "idle"]
    /\ entry = [a \in Attempts |-> "none"]
    /\ local = [a \in Attempts |-> NoLocal]
    /\ ops = [a \in Attempts |-> <<>>]
    /\ result = [a \in Attempts |-> None]
    /\ response = [a \in Attempts |-> None]
    /\ \E p \in Paths : url = NoUrl(p)

NextUrls ==
    \/ FrontendRoute
    \/ BackendApiEndpoint
    \/ DiscordApiEndpoint

SpecUrls == InitUrls /\ [][NextUrls]_vars

\* Concurrent logins with the scheduling the code has: a storage query that
\* was issued returns (the pool answers or reports an error), while nothing
\* bounds the wait for the provider: the reqwest client is built without a
\* timeout, so the two HTTP steps carry no fairness.
StorageAnswers ==
    \A a \in Attempts :
        /\ WF_vars(LookupUser(a))
        /\ WF_vars(UpdateExistingUser(a))
        /\ WF_vars(CreateNewUser(a))
        /\ WF_vars(SaveToken(a))

SpecLive == Init /\ [][NextLogins]_vars /\ StorageAnswers

(* ------------------------------------------------------------------ *)
(* Properties.                                                         *)
(* ------------------------------------------------------------------ *)
Finished(a) == pc[a] = "done"
Succeeded(a) == IsSome(result[a]) /\ result[a][1].ok
FailedWith(a, msg) ==
    /\ IsSome(result[a])
    /\ ~result[a][1].ok
    /\ result[a][1].val[1] = msg
\* The failure carries cause as its second part ("Failed to ..: <cause>").
FailedBecause(a, msg, cause) ==
    FailedWith(a, msg) /\ result[a][1].val[2] = cause
\* The external identifier of the profile attempt a fetched, as an Option.
DiscordOf(a) ==
    IF IsSome(local[a].user_info) THEN Unwrap(local[a].user_info).id ELSE None
\* Reconcile returned Ok(id) to attempt a.
ReconcileOk(a) == IsSome(local[a].user_id)
UsersWith(d) == {u \in users : u.discord_id = d}
TokensOf(ts, uid) == {t \in ts : t.user_id = uid}

\* C1: in every reachable state, whatever the interleaving of login
\* attempts and direct create_user calls, no two user rows have the same
\* external (Discord) identifier.
C1_UniqueExternalId ==
    \A u \in users, v \in users : u.discord_id = v.discord_id => u = v

\* A login and a direct create_user met on one external identifier: the
\* row is the directly created one and the login's create was rejected.
C1_Witness ==
    \E a \in Attempts :
        /\ FailedBecause(a, "Failed to create user", "duplicate key")
        /\ \E u \in UsersWith(Unwrap(DiscordOf(a))) : u.display_name = "manual"

\* C2 as stated: two concurrent reconcile calls for one external
\* identifier never both succeed with different user identifiers, and
\* exactly one user row with that identifier exists once both have finished.
C2_ExactlyOneRowAfterBoth ==
    \A a \in Attempts, b \in Attempts :
        (a # b /\ IsSome(DiscordOf(a)) /\ DiscordOf(a) = DiscordOf(b)) =>
            /\ (ReconcileOk(a) /\ ReconcileOk(b)) => local[a].user_id = local[b].user_id
            /\ (Finished(a) /\ Finished(b)) =>
                   Cardinality(UsersWith(Unwrap(DiscordOf(a)))) = 1

\* C2 amended: they never both succeed with different identifiers, and once
\* both have finished there is exactly one user row with that identifier,
\* or none when the create of both calls failed with a storage error.
C2_RaceTolerance ==
    \A a \in Attempts, b \in Attempts :
        (a # b /\ IsSome(DiscordOf(a)) /\ DiscordOf(a) = DiscordOf(b)) =>
            /\ (ReconcileOk(a) /\ ReconcileOk(b)) => local[a].user_id = local[b].user_id
            /\ (Finished(a) /\ Finished(b)) =>
                   Cardinality(UsersWith(Unwrap(DiscordOf(a)))) =
                       IF /\ FailedBecause(a, "Failed to create user", DbError)
                          /\ FailedBecause(b, "Failed to create user", DbError)
                       THEN 0 ELSE 1

\* Both calls looked the identifier up before either created it; one
\* created the row and succeeded, the other lost the race.
C2_Witness ==
    \E a \in Attempts, b \in Attempts :
        /\ a # b
        /\ DiscordOf(a) = DiscordOf(b)
        /\ Succeeded(a)
        /\ FailedBecause(b, "Failed to create user", "duplicate key")
        /\ ops[b][3] = <<"LOOKUP", "ok">>
        /\ Cardinality(UsersWith(Unwrap(DiscordOf(a)))) = 1

\* C3: a create that fails with a uniqueness violation because a concurrent
\* attempt created the user first is recovered from: reconcile returns the
\* existing identifier and no error reaches the caller.
C3_CreateRaceRecovered ==
    \A a \in Attempts :
        ~FailedBecause(a, "Failed to create user", "duplicate key")

\* C4: in every reachable state, under any interleaving of logins, token
\* upserts, updates, deletes and purges, each user owns at most one token
\* row.
C4_OneTokenPerUser ==
    \A t \in tokens, u \in tokens : t.user_id = u.user_id => t = u

\* A login stored a token for its user and a later POST /api/discord-tokens
\* for the same user replaced it: one insert only, and the row is no longer
\* the login's.
C4_Witness ==
    /\ Succeeded("a1")
    /\ nextTokenId = 2
    /\ \E t \in TokensOf(tokens, result["a1"][1].val) :
           t.access_token # Unwrap(local["a1"].grant).access_token

\* The user of ct has exactly one token row in ts and it carries the five
\* fields of ct.
HoldsExactly(ts, ct) ==
    \E t \in ts :
        /\ TokensOf(ts, ct.user_id) = {t}
        /\ t.access_token = ct.access_token
        /\ t.refresh_token = ct.refresh_token
        /\ t.token_type = ct.token_type
        /\ t.scope = ct.scope
        /\ t.expires_at = ct.expires_at

\* C5: after every successful upsert_discord_token call, whatever calls came
\* before it, the user has exactly one token row and its access token,
\* refresh token, token type, scope and expiry are those of this call (an
\* absent refresh token, scope or expiry clears the stored value).
C5_LastUpsertWins ==
    [][ /\ \A a \in Attempts :
             (SaveToken(a) /\ Succeeded(a)') =>
                 HoldsExactly(tokens', create_token_of(Unwrap(local[a].user_id),
                                                       Unwrap(local[a].grant), now))
        /\ \A uid \in UserIds, req \in CreateTokenRequests :
             ApiUpsertTokenFor(uid, req) =>
                 HoldsExactly(tokens', create_token_of_request(uid, req, now))
      ]_vars

\* The login stored a refresh token and a scope for its user, and a later
\* upsert without them for the same user (N = 2) cleared both.
C5_Witness ==
    /\ Succeeded("a1")
    /\ IsSome(Unwrap(local["a1"].grant).refresh_token)
    /\ IsSome(Unwrap(local["a1"].grant).scope)
    /\ nextTokenId = 2
    /\ \E t \in TokensOf(tokens, result["a1"][1].val) :
           /\ t.access_token = "tok1"
           /\ t.refresh_token = None
           /\ t.scope = None
           /\ t.token_type = "Bearer"

\* Row t is what validate_access_token may return for t's access token.
Returned_valid(ts, t, t0) == Some(t) \in validate_access_token(ts, t.access_token, t0)
NotInFuture(t, t0) == IsSome(t.expires_at) /\ ~(Unwrap(t.expires_at) > t0)

\* validate_access_token returns no result for a matching token whose expiry
\* is not strictly in the future, and returns the token when its expiry is
\* in the future or absent.
ValidateHonoursExpiry ==
    /\ \A t \in tokens :
         Returned_valid(tokens, t, now) <=> ~NotInFuture(t, now)
    /\ \A t \in tokens :
         (\A u \in tokens : u.access_token = t.access_token => NotInFuture(u, now))
             => validate_access_token(tokens, t.access_token, now) = {None}

\* A token row that validate_access_token did not return is returned after
\* the step.
Revived ==
    \E t \in tokens, u \in tokens' :
        /\ u.id = t.id
        /\ ~Returned_valid(tokens, t, now)
        /\ Returned_valid(tokens', u, now')

\* C6 as stated: validate_access_token honours the expiry, and a token that
\* has expired is never returned again unless a new upsert happens.
C6_NeverAgainWithoutUpsert ==
    [][ /\ ValidateHonoursExpiry'
        /\ Revived => (ApiUpsertToken \/ \E a \in Attempts : SaveToken(a))
      ]_vars

\* C6 amended: validate_access_token honours the expiry, and a token that has
\* expired is never returned again unless a new upsert or an
\* update_discord_token that moves its expiry happens.
C6_ValidateExpiry ==
    [][ /\ ValidateHonoursExpiry'
        /\ Revived => (ApiUpsertToken \/ ApiUpdateToken
                         \/ \E a \in Attempts : SaveToken(a))
      ]_vars

\* A stored token whose expiry is exactly the time of the read, and which
\* validate_access_token therefore withholds.
C6_Witness ==
    \E t \in tokens :
        /\ t.expires_at = Some(now)
        /\ validate_access_token(tokens, t.access_token, now) = {None}

\* The attempt returned a failure.
Failure(a) == Finished(a) /\ IsSome(result[a]) /\ ~result[a][1].ok

\* C7: whenever the inbound callback carries an error parameter, with or
\* without a code, the answer is the redirect with reason oauth_failed and
\* the attempt makes no outbound call.
C7_ErrorParameterDenied ==
    \A a \in Attempts :
        (IsSome(local[a].query) /\ IsSome(Unwrap(local[a].query).error)) =>
            /\ Finished(a)
            /\ ops[a] = <<>>
            /\ result[a] = None
            /\ entry[a] = "callback" =>
                   response[a] = Some([kind |-> "redirect",
                                       to |-> oauth_error_redirect("oauth_failed")])
            /\ entry[a] = "frontend" =>
                   response[a] = Some([kind |-> "nav",
                                       to |-> <<"/?error=oauth_failed&details=",
                                                Unwrap(Unwrap(local[a].query).error)>>])

\* The back end's callback was called with both an error and a code and
\* answered.
C7_Witness ==
    \E a \in Attempts :
        /\ entry[a] = "callback"
        /\ IsSome(response[a])
        /\ IsSome(Unwrap(local[a].query).error)
        /\ IsSome(Unwrap(local[a].query).code)

\* The stage a call or query belongs to, and the stage a failure names:
\* 1 token exchange, 2 profile fetch, 3 user reconciliation, 4 token persist.
StageOfOp(op) ==
    IF op = "POST" THEN 1
    ELSE IF op = "GET" THEN 2
    ELSE IF op \in {"LOOKUP", "UPDATE", "CREATE"} THEN 3
    ELSE 4
StageOfFailure(msg) ==
    IF msg \in {"Request failed", "Token request failed", "JSON parsing failed",
                "No access token in response"} THEN 1
    ELSE IF msg \in {"Failed to get user info", "Failed to parse user info"} THEN 2
    ELSE IF msg \in {"No Discord ID in user info", "Failed to update user",
                     "User not found after update", "Failed to create user"} THEN 3
    ELSE 4

C9_CarriesStatusAndBody ==
    [][ \A a \in Attempts :
          (TokenResponse(a) /\ IsSome(local'[a].token_response)) =>
              LET tr == Unwrap(local'[a].token_response)
              IN /\ FailedWith(a, "Token request failed")'
                 /\ result'[a][1].val = <<"Token request failed", tr.status, tr.body>>
                 /\ ops'[a] = << <<"POST", "err">> >>
                 /\ users' = users
                 /\ tokens' = tokens
      ]_vars

\* C9 amended: the failure carries the provider's status and the response
\* body, or an empty body when the body could not be read; the attempt has
\* accessed no table, and the step leaves every user row and token row as
\* it was.
C9_Non2xxExchange ==
    [][ \A a \in Attempts :
          (TokenResponse(a) /\ IsSome(local'[a].token_response)) =>
              LET tr == Unwrap(local'[a].token_response)
              IN /\ FailedWith(a, "Token request failed")'
                 /\ result'[a][1].val =
                        <<"Token request failed", tr.status,
                          IF tr.readable THEN tr.body ELSE "">>
                 /\ ops'[a] = << <<"POST", "err">> >>
                 /\ users' = users
                 /\ tokens' = tokens
      ]_vars

\* The token endpoint answered 400 with body invalid_grant while a user row
\* existed; the attempt failed with both.
C9_Witness ==
    \E a \in Attempts :
        /\ FailedWith(a, "Token request failed")
        /\ result[a][1].val = <<"Token request failed", 400, "invalid_grant">>
        /\ users # {}

\* C10: a login attempt that returns a failure has left no write behind: none
\* of its storage writes succeeded.
C10_NoPartialCommit ==
    \A a \in Attempts :
        Failure(a) =>
            \A i \in DOMAIN ops[a] :
                ~(ops[a][i][1] \in {"CREATE", "UPDATE", "UPSERT"} /\ ops[a][i][2] = "ok")

\* Reconcile returns Ok(id) to attempt a in this step.
ReconcileReturns(a) ==
    /\ UpdateExistingUser(a) \/ CreateNewUser(a)
    /\ ReconcileOk(a)'

\* C11: when reconcile returns an identifier for an external identifier for
\* which an earlier reconcile call already returned one, it returns the
\* same identifier, and it leaves the bio of that user as it was, whatever
\* the display name and avatar of its profile.
C11_ReconcileIdempotent ==
    [][ \A a \in Attempts, b \in Attempts :
          (a # b /\ ReconcileReturns(a) /\ ReconcileOk(b)
                 /\ DiscordOf(a) = DiscordOf(b)) =>
              /\ local'[a].user_id = local[b].user_id
              /\ \A u \in UsersWith(Unwrap(DiscordOf(a))) :
                     \E v \in users' : v.id = u.id /\ v.bio = u.bio
      ]_vars

\* A user created with a bio was reconciled twice, by two logins whose
\* profiles differ in name and avatar: both got its identifier and the bio
\* is still there.
C11_Witness ==
    /\ Succeeded("a1") /\ Succeeded("a2")
    /\ result["a1"][1].val = result["a2"][1].val
    /\ DiscordOf("a1") = DiscordOf("a2")
    /\ display_name_of(Unwrap(local["a1"].user_info)) #
           display_name_of(Unwrap(local["a2"].user_info))
    /\ \E u \in users :
           /\ u.id = result["a1"][1].val
           /\ u.bio = Some("bio0")
           /\ u.display_name # "manual"

\* C12: when reconcile finds an existing user and succeeds, the stored
\* display name and the stored avatar reference both equal the values of
\* the fresh profile, whether or not the fresh profile has an avatar.
C12_ProfileOverwritesStored ==
    [][ \A a \in Attempts :
          (UpdateExistingUser(a) /\ ReconcileOk(a)') =>
              \E v \in users' :
                  /\ v.id = Unwrap(local'[a].user_id)
                  /\ v.display_name = display_name_of(Unwrap(local[a].user_info))
                  /\ v.avatar_url = avatar_url_of(Unwrap(local[a].user_info))
      ]_vars

\* C13: whenever a login attempt returns a user identifier, at the moment
\* its token upsert completed a user row with that identifier and the
\* profile's external identifier existed, and the one token row of that
\* user held the five fields of the attempt's grant.
C13_SuccessMeansStored ==
    [][ \A a \in Attempts :
          (SaveToken(a) /\ Succeeded(a)') =>
              /\ \E u \in users' :
                     /\ u.id = result'[a][1].val
                     /\ Some(u.discord_id) = DiscordOf(a)
              /\ HoldsExactly(tokens', create_token_of(result'[a][1].val,
                                                       Unwrap(local[a].grant), now))
      ]_vars

\* A login through the back end's callback returned an identifier; the user
\* and the token are there.
C13_Witness ==
    /\ Succeeded("a1")
    /\ entry["a1"] = "callback"
    /\ \E u \in users : u.id = result["a1"][1].val /\ Some(u.discord_id) = DiscordOf("a1")
    /\ \E t \in tokens : /\ t.user_id = result["a1"][1].val
                         /\ t.access_token = Unwrap(local["a1"].grant).access_token

\* The operations of an attempt in the order of the code.
StageOrder ==
    << {"POST"}, {"GET"}, {"LOOKUP"}, {"UPDATE", "CREATE"}, {"UPSERT"} >>

\* C14: within one login attempt the operations occur only in the order
\* token POST, profile GET, user lookup, user create or update, token
\* upsert, each at most once, and only the latest can be in flight.
C14_StrictlySequential ==
    \A a \in Attempts :
        /\ Len(ops[a]) <= Len(StageOrder)
        /\ \A i \in DOMAIN ops[a] :
               /\ ops[a][i][1] \in StageOrder[i]
               /\ ops[a][i][2] = "sent" => i = Len(ops[a])

\* An attempt ran all five operations, the update among them.
C14_Witness ==
    \E a \in Attempts :
        ops[a] = << <<"POST", "ok">>, <<"GET", "ok">>, <<"LOOKUP", "ok">>,
                    <<"UPDATE", "ok">>, <<"UPSERT", "ok">> >>

\* C15: every login attempt eventually terminates, with a user identifier
\* or a failure, even when the provider never answers the token request or
\* the profile request.
C15_EveryAttemptTerminates ==
    \A a \in Attempts :
        (pc[a] \in {"token_wait", "profile_wait"}) ~> (pc[a] = "done")

\* Stores that differ from ts only in stored access-token or refresh-token
\* values.
SecretVariants(ts) ==
    { {[t EXCEPT !.access_token = "other"] : t \in ts},
      {[t EXCEPT !.refresh_token = IF IsSome(@) THEN None ELSE Some("other")] : t \in ts},
      {[t EXCEPT !.access_token = "other", !.refresh_token = Some("other")] : t \in ts} }

\* C16: the responses of the token-management endpoints (upsert, get by
\* user, update, delete, verify, cleanup) reveal no stored access-token or
\* refresh-token value: two stores that differ only in those values answer
\* every request alike.
C16_ResponsesHideSecrets ==
    \A other \in SecretVariants(tokens), dbok \in BOOLEAN :
        /\ cleanup_response(tokens, now, dbok) = cleanup_response(other, now, dbok)
        /\ \A uid \in UserIds :
             /\ get_response(tokens, uid, dbok) = get_response(other, uid, dbok)
             /\ delete_response(tokens, uid, dbok) = delete_response(other, uid, dbok)
             /\ verify_response(tokens, uid, now, dbok) = verify_response(other, uid, now, dbok)
             /\ \A ut \in UpdateTokenInputs :
                    update_response(tokens, uid, ut, dbok) = update_response(other, uid, ut, dbok)
             /\ \A req \in CreateTokenRequests :
                    upsert_response(tokens, users, nextTokenId,
                                    create_token_of_request(uid, req, now), dbok)
                  = upsert_response(other, users, nextTokenId,
                                    create_token_of_request(uid, req, now), dbok)

\* A user's stored token has a refresh token, and the get, update and upsert
\* requests for that user are answered with the token's public fields.
C16_Witness ==
    \E t \in tokens :
        /\ IsSome(t.refresh_token)
        /\ get_response(tokens, t.user_id, TRUE).status = 200
        /\ \E ut \in UpdateTokenInputs :
               update_response(tokens, t.user_id, ut, TRUE).status = 200
        /\ \E req \in CreateTokenRequests :
               upsert_response(tokens, users, nextTokenId,
                               create_token_of_request(t.user_id, req, now), TRUE).status = 200

\* The expiry of row t is set and earlier than t0.
InPast(t, t0) == IsSome(t.expires_at) /\ Unwrap(t.expires_at) < t0

\* C17: cleanup_expired_tokens deletes exactly the token rows whose expiry is
\* set and earlier than the current time, leaves every other token row
\* unchanged, and returns the number of rows it deleted.
C17_PurgeExactlyExpired ==
    [][ ApiCleanup =>
          /\ tokens' = {t \in tokens : ~InPast(t, now)}
          /\ cleanup_expired_tokens(tokens, now).count = Cardinality(tokens \ tokens')
          /\ Unwrap(cleanup_response(tokens, now, TRUE).data).deleted_count
                 = Cardinality(tokens) - Cardinality(tokens')
      ]_vars

\* Two token rows were inserted, one has been purged, and the one that is
\* left expires at this very moment.
C17_Witness ==
    /\ nextTokenId = 3
    /\ Cardinality(tokens) = 1
    /\ \E t \in tokens : t.expires_at = Some(now)

\* Fewer token rows are stored than were inserted: a purge has happened.
Purged == Cardinality(tokens) < nextTokenId - 1

\* C18: under any interleaving of the purge with logins, upserts and
\* updates, the purge removes no token that validate_access_token would
\* return at that moment, and a login whose upsert completes after a purge
\* ends with exactly one token row for its user, holding its grant.
C18_PurgeIsSafe ==
    [][ /\ ApiCleanup =>
               \A t \in tokens \ tokens' : ~Returned_valid(tokens, t, now)
        /\ \A a \in Attempts :
               (Purged /\ SaveToken(a) /\ Succeeded(a)') =>
                   HoldsExactly(tokens', create_token_of(Unwrap(local[a].user_id),
                                                         Unwrap(local[a].grant), now))
      ]_vars

\* The only user's first token row was purged, and a login stored its grant
\* in the row inserted afterwards.
C18_Witness ==
    /\ Cardinality(users) = 1
    /\ \E a \in Attempts :
           /\ Succeeded(a)
           /\ \E t \in tokens :
                  /\ t.id = 2
                  /\ t.user_id = result[a][1].val
                  /\ t.access_token = "tok2"
                  /\ t.refresh_token = Some("ref2")

\* Attempt a takes a step: its request arrives or one of its stages runs.
LoginStep(a) == HandleDiscordExchange(a) \/ Steps(a)

\* C19: a step of a login attempt, whether the attempt succeeds or fails and
\* however it interleaves with other attempts and with the user endpoints,
\* leaves the user row and the token row of every user with another external
\* identifier than the attempt's unchanged.
C19_OtherUsersUntouched ==
    [][ \A a \in Attempts :
          LoginStep(a) =>
              \A u \in users :
                  (Some(u.discord_id) # DiscordOf(a)') =>
                      /\ u \in users'
                      /\ TokensOf(tokens', u.id) = TokensOf(tokens, u.id)
      ]_vars

\* Two logins for two external identifiers both went through, each with its
\* own grant, and every user still has the name of their own profile and the
\* access token of their own grant.
C19_Witness ==
    /\ Succeeded("a1") /\ Succeeded("a2")
    /\ DiscordOf("a1") # DiscordOf("a2")
    /\ Unwrap(local["a1"].grant).access_token # Unwrap(local["a2"].grant).access_token
    /\ \A a \in Attempts :
           /\ \E u \in users :
                  /\ u.id = result[a][1].val
                  /\ Some(u.discord_id) = DiscordOf(a)
                  /\ u.display_name = display_name_of(Unwrap(local[a].user_info))
           /\ \E t \in tokens :
                  /\ TokensOf(tokens, result[a][1].val) = {t}
                  /\ t.access_token = Unwrap(local[a].grant).access_token

\* Attempt b's upsert has stored a token for user uid.
Upserted(b, uid) == Succeeded(b) /\ result[b][1].val = uid

\* The token row of user uid is, field for field, the row of attempt a's
\* grant stored at some time.
WhollyOf(a, uid) ==
    \E t0 \in 0..MaxTime :
        HoldsExactly(tokens, create_token_of(uid, Unwrap(local[a].grant), t0))

\* C20: when two login attempts for one user both reach the token upsert,
\* the user's single token row holds the access token, refresh token, token
\* type, scope and expiry of the attempt whose upsert ran last, and at no
\* time a mixture of the two grants.
C20_LastWriterWholly ==
    /\ [][ \A a \in Attempts, b \in Attempts :
             (a # b /\ SaveToken(a) /\ Succeeded(a)'
                    /\ Upserted(b, Unwrap(local[a].user_id))) =>
                 HoldsExactly(tokens', create_token_of(Unwrap(local[a].user_id),
                                                       Unwrap(local[a].grant), now))
         ]_vars
    /\ [](\A a \in Attempts, b \in Attempts :
             (a # b /\ Succeeded(a) /\ Upserted(b, result[a][1].val)) =>
                 (WhollyOf(a, result[a][1].val) \/ WhollyOf(b, result[a][1].val)))

\* Two logins for one user both stored their grants, which differ in every
\* field; one row was inserted and then overwritten, and it is the second
\* grant whole.
C20_Witness ==
    /\ Succeeded("a1") /\ Succeeded("a2")
    /\ result["a1"][1].val = result["a2"][1].val
    /\ nextTokenId = 2
    /\ Unwrap(local["a1"].grant).access_token = "tok1"
    /\ Unwrap(local["a2"].grant).access_token = "tok2"
    /\ \E t \in tokens :
           /\ TokensOf(tokens, result["a1"][1].val) = {t}
           /\ t.access_token = "tok1"
           /\ t.refresh_token = None
           /\ t.token_type = "Bearer"
           /\ t.scope = None
           /\ t.expires_at = Some(now + 1)

\* C21: the display name reconcile stores is the profile's global_name when
\* that field is present and non-empty, and the username in every other
\* case (global_name absent, null or empty).
C21_OverrideUnlessEmpty ==
    [][ \A a \in Attempts :
          ((CreateNewUser(a) \/ UpdateExistingUser(a)) /\ ReconcileOk(a)') =>
              LET info == Unwrap(local[a].user_info)
                  gn == info.global_name
              IN \E v \in users' :
                     /\ v.id = Unwrap(local'[a].user_id)
                     /\ v.display_name = IF IsSome(gn) /\ Unwrap(gn) # ""
                                         THEN Unwrap(gn)
                                         ELSE Unwrap(info.username)
      ]_vars

\* C22: the expiry stored for a login's token is the time at which the token
\* endpoint's response was received plus expires_in, however long the
\* profile fetch and reconcile took afterwards; with no expires_in no expiry
\* is stored.
C22_ExpiryFromReceipt ==
    [][ \A a \in Attempts :
          (SaveToken(a) /\ Succeeded(a)') =>
              \E t \in tokens' :
                  /\ t.user_id = Unwrap(local[a].user_id)
                  /\ t.expires_at = expires_at_of(Unwrap(local[a].grant).expires_in,
                                                  Unwrap(local[a].received_at))
      ]_vars

\* The redirect target of the outcome class of a finished callback attempt.
\* (The guards come first: a success target carries an identifier, a failure
\* target a reason.)
RedirectOfClass(a) ==
    LET q == Unwrap(local[a].query)
    IN IF IsSome(q.error) THEN oauth_error_redirect("oauth_failed")
       ELSE IF IsNone(q.code) THEN oauth_error_redirect("missing_code")
       ELSE IF Succeeded(a) THEN oauth_success_redirect(result[a][1].val)
       ELSE oauth_error_redirect("token_exchange_failed")

\* C23: on the callback path the redirect target depends on the outcome
\* class alone: the success target with the returned id, oauth_failed for a
\* provider error, token_exchange_failed for a pipeline failure,
\* missing_code for a missing code; an attempt that failed on a non-2xx
\* answer of the token endpoint gets the target it would get for any other
\* status and body.
C23_RedirectByClassOnly ==
    \A a \in Attempts :
        (entry[a] = "callback" /\ Finished(a)) =>
            /\ IsSome(response[a])
            /\ response[a][1].kind = "redirect"
            /\ Succeeded(a) <=> response[a][1].to[2] = "/?auth=success&user_id="
            /\ response[a][1].to = RedirectOfClass(a)
            /\ FailedWith(a, "Token request failed") =>
                   \A status \in ErrorStatuses, body \in ErrorBodies, readable \in BOOLEAN :
                       respond("callback",
                               Pipeline(Err(token_request_failed(
                                   status, IF readable THEN Some(body) ELSE None)))).to
                           = response[a][1].to

\* A callback with a code failed at the token endpoint, which answered 500
\* with a body, and was redirected.
C23_Witness ==
    \E a \in Attempts :
        /\ entry[a] = "callback"
        /\ FailedWith(a, "Token request failed")
        /\ result[a][1].val = <<"Token request failed", 500, "invalid_grant">>
        /\ IsSome(response[a])

\* The inbound query q carries neither a code nor an error.
EmptyCallback(q) == IsSome(q) /\ IsNone(Unwrap(q).code) /\ IsNone(Unwrap(q).error)

\* C24: a callback that carries neither a code nor an error is answered
\* with the missing_code redirect (the front end's view: navigation) at
\* once, with no outbound call, no storage access of the attempt, and every
\* user and token row left as it was.
C24_MissingCodeTouchesNothing ==
    /\ [](\A a \in Attempts :
            EmptyCallback(local[a].query) =>
                /\ Finished(a)
                /\ ops[a] = <<>>
                /\ result[a] = None
                /\ entry[a] = "callback" =>
                       response[a] = Some([kind |-> "redirect",
                                           to |-> oauth_error_redirect("missing_code")])
                /\ entry[a] = "frontend" =>
                       response[a] = Some([kind |-> "nav", to |-> <<"/?error=missing_code">>]))
    /\ [][ \A a \in Attempts :
             (EmptyCallback(local'[a].query) /\ local'[a] # local[a]) =>
                 /\ HandleDiscordCallback(a) \/ DiscordCallback(a)
                 /\ UNCHANGED db
         ]_vars

\* The back end's callback was called with neither parameter while a user
\* was stored, and answered.
C24_Witness ==
    \E a \in Attempts :
        /\ entry[a] = "callback"
        /\ EmptyCallback(local[a].query)
        /\ IsSome(response[a])
        /\ users # {}

\* C25: once a user row exists, its local identifier and its external
\* identifier never change: after any step of a login or of the user
\* endpoints the row with that local identifier is there, with the same
\* external identifier.
C25_IdentifiersImmutable ==
    [][ \A u \in users :
          /\ \E v \in users' : v.id = u.id
          /\ \A v \in users' : v.id = u.id => v.discord_id = u.discord_id
      ]_vars

\* A user created by one login was updated by a second login with another
\* name and through update_user, and is still the row of the first login's
\* identifiers.
C25_Witness ==
    /\ Succeeded("a1") /\ Succeeded("a2")
    /\ result["a1"][1].val = result["a2"][1].val
    /\ display_name_of(Unwrap(local["a1"].user_info)) #
           display_name_of(Unwrap(local["a2"].user_info))
    /\ \E u \in users :
           /\ u.id = result["a1"][1].val
           /\ Some(u.discord_id) = DiscordOf("a1")
           /\ u.bio = Some("bio1")

\* The storage operations of reconcile, and the writes of the pipeline.
ReconcileOps == {"LOOKUP", "UPDATE", "CREATE"}
StorageWrites == {"UPDATE", "CREATE", "UPSERT"}

\* C26: if a storage operation inside reconcile (the lookup by external
\* identifier, the update or the create) returns an error, the attempt
\* performs no storage write after it and ends in a failure.
C26_ReconcileStopsOnStorageError ==
    \A a \in Attempts :
        \A i \in DOMAIN ops[a] :
            (ops[a][i][1] \in ReconcileOps /\ ops[a][i][2] = "err") =>
                /\ \A j \in DOMAIN ops[a] : j > i => ops[a][j][1] \notin StorageWrites
                /\ Finished(a) => Failure(a)

BaseOf(b) ==
    IF b = "frontend_route" THEN frontend_url
    ELSE IF b = "backend_api_endpoint" THEN backend_api_url
    ELSE discord_api_base_url

\* C28: frontend_route and backend_api_endpoint return the base URL, one
\* '/', and the path without any of its leading '/' characters; hence the
\* result for a path and for '/' followed by that path are the same.
C28_UrlBuilders ==
    url.of \in {"frontend_route", "backend_api_endpoint"} =>
        /\ \E k \in 0..Len(url.path) :
               /\ \A i \in 1..k : url.path[i] = "/"
               /\ k < Len(url.path) => url.path[k + 1] # "/"
               /\ url.val = BaseOf(url.of) \o <<"/">>
                                \o SubSeq(url.path, k + 1, Len(url.path))
        /\ url.of = "frontend_route" => frontend_route(<<"/">> \o url.path) = url.val
        /\ url.of = "backend_api_endpoint" =>
               backend_api_endpoint(<<"/">> \o url.path) = url.val

\* backend_api_endpoint was given "//a" and returned the base, "/" and "a".
C28_Witness ==
    /\ url.of = "backend_api_endpoint"
    /\ url.path = <<"/", "/", "a">>
    /\ url.val = <<"BACKEND_URL", "/api", "/", "a">>

\* What verify_discord_token reports for user uid when its query succeeds.
Verified(uid) == Unwrap(verify_response(tokens, uid, now, TRUE).data)

\* verify and validate agree on the token row t of user uid: expired exactly
\* when validate_access_token on t's access token can return no result
\* only, and not expired exactly when it returns a row.
AgreeOn(uid, t) ==
    LET v == Verified(uid)
        found == validate_access_token(tokens, t.access_token, now)
    IN /\ v.has_token
       /\ v.is_expired = Some(TRUE) => found = {None}
       /\ v.is_expired = Some(FALSE) => None \notin found

\* verify reports has_token = false exactly when the user has no token row.
HasTokenIffStored ==
    \A uid \in UserIds : ~Verified(uid).has_token <=> TokensOf(tokens, uid) = {}

\* C29 as stated: at any instant, for every user with a stored token, verify
\* reports the token expired exactly when validate_access_token on its
\* access token returns no result; and verify reports has_token = false
\* exactly when the user has no token row.
C29_VerifyAgreesWithValidate ==
    /\ HasTokenIffStored
    /\ \A t \in tokens : AgreeOn(t.user_id, t)

\* Row t is the only row that stores its access-token value.
SoleHolder(t) == \A u \in tokens : u.access_token = t.access_token => u = t

\* C29 amended: the same, for every user whose access-token value no other
\* user's token row stores.
C29_VerifyAgreesWhenTokenUnique ==
    /\ HasTokenIffStored
    /\ \A t \in tokens : SoleHolder(t) => AgreeOn(t.user_id, t)

\* A user's token, stored for nobody else, expires at this very moment:
\* verify reports it expired and validate_access_token withholds it.
C29_Witness ==
    \E t \in tokens :
        /\ SoleHolder(t)
        /\ t.expires_at = Some(now)
        /\ Verified(t.user_id).is_expired = Some(TRUE)
        /\ validate_access_token(tokens, t.access_token, now) = {None}

\* C30: a bio written through update_user is never lost or reverted by a
\* login for the same user, wherever the bio update falls among the login's
\* steps: no step of a login changes the bio of a stored user, and the row a
\* bio update changes holds the bio of that update.
C30_BioSurvivesLogin ==
    [][ /\ \A a \in Attempts :
             LoginStep(a) =>
                 \A u \in users : \E v \in users' : v.id = u.id /\ v.bio = u.bio
        /\ ApiUpdateUser =>
               \A u \in users, v \in users' :
                   (v.id = u.id /\ v # u) =>
                       \E uu \in UpdateUserInputs : v.bio = uu.bio
      ]_vars

\* A login found its user and updated the row, which carries the name of
\* the login's profile and the bio written through update_user.
C30_Witness ==
    \E a \in Attempts :
        /\ ReconcileOk(a)
        /\ \E i \in DOMAIN ops[a] : ops[a][i] = <<"UPDATE", "ok">>
        /\ \E u \in users :
               /\ u.id = Unwrap(local[a].user_id)
               /\ u.display_name = display_name_of(Unwrap(local[a].user_info))
               /\ u.bio = Some("bio1")

====
